---- MODULE Spec2Model ----
(***************************************************************************)
(* A model of the `when` command-line tool (src/when/main.py,              *)
(* src/when/utils.py): the time-argument classifier parse_t, the partition *)
(* utility, the report/clock command `when`, the report RichTime.__rich__  *)
(* and the clock face Clock.__rich_console__ / draw_hand.                  *)
(*                                                                         *)
(* Text is a sequence of atoms.  An atom is one character ("7", ".", " ")  *)
(* or, where only the identity of a word matters, one word ("Unable",      *)
(* "ParserError").  An optional value is a sequence of length 0 (None) or  *)
(* 1 (the value).                                                          *)
(***************************************************************************)
EXTENDS Integers, Sequences, FiniteSets, TLC

VARIABLES
    \* ---- parse_t called on its own (SpecParse)
    pt,            \* the argument of parse_t: an optional text
    presult,       \* what the call did: a record, see parse_t
    ppc,           \* "call" | "returned"
    \* ---- partition called on its own (SpecPartition)
    items,         \* the input sequence
    is_left,       \* the predicate, a function items' elements -> BOOLEAN
    partitioned,   \* <<left, right>> once returned
    qpc,           \* "call" | "returned"
    \* ---- one rendering of a clock face (SpecClock)
    max_height,    \* options.max_height, given by the display
    ctarget,       \* Clock.target: [hour, minute, second]
    clock,         \* the grid: a list of rows, each a list of glyph cells
    sixtieth,      \* the tick loop's variable
    written,       \* the writes of the last step: [y, c, n], 0-based as in the code
    cpc,           \* "new" | "ticks" | "hour" | "minute" | "second" | "yield"
                   \* | "rendered" | "raised" (IndexError)
    \* ---- one run of the command `when` (Spec)
    t,             \* the time argument: an optional text
    timezones,     \* the --timezone options, in order
    add_utc,       \* --add-utc / --no-add-utc
    add_local,     \* --add-local / --no-add-local
    opt_clock,     \* --clock
    local_name,    \* the name of the machine's local timezone
    wall,          \* the machine's clock, what pendulum.now() reads
    now,           \* the sample taken on line 102, once taken
    parsed,        \* what parse_t did, once called
    target,        \* the target instant, once known
    good_timezones, \* the valid names, once partitioned
    bad_timezones, \* the invalid names, once partitioned
    display_timezones, \* the set of timezone objects to show, once built
    stdout,        \* what was printed on standard output, in order
    stderr,        \* the text printed on the error stream
    exit_code,     \* the process's exit code, once it ended
    screen,        \* "normal" | "alternate"
    live,          \* the renderable the display holds, if any
    interrupted,   \* a KeyboardInterrupt arrived
    pc             \* where the run is

parseVars == <<pt, presult, ppc>>
partVars  == <<items, is_left, partitioned, qpc>>
clockVars == <<max_height, ctarget, clock, sixtieth, written, cpc>>
cliVars   == <<t, timezones, add_utc, add_local, opt_clock, local_name, wall, now,
               parsed, target, good_timezones, bad_timezones, display_timezones, stdout, stderr,
               exit_code, screen, live, interrupted, pc>>
vars      == <<pt, presult, ppc, items, is_left, partitioned, qpc,
               max_height, ctarget, clock, sixtieth, written, cpc,
               t, timezones, add_utc, add_local, opt_clock, local_name, wall, now,
               parsed, target, good_timezones, bad_timezones, display_timezones, stdout, stderr,
               exit_code, screen, live, interrupted, pc>>

None    == <<>>
Some(x) == <<x>>

(***************************************************************************)
(* Bounds of the model.                                                    *)
(***************************************************************************)
MaxFree   == 3    \* free texts over Alphabet have at most this many atoms
MaxDigits == 17   \* all-digit texts have up to this many digits
MaxFrac   == 2    \* a fraction has up to this many digits
MaxPad    == 1    \* whitespace atoms put before / after a text
MaxItems  == 3    \* length of the sequences given to partition
MaxHeight == 9    \* largest options.max_height given to the clock face
MaxZones  == 2    \* number of --timezone options
MaxWall   == 3    \* the machine's clock runs from 0 to this

Min(a, b) == IF a < b THEN a ELSE b
Max(a, b) == IF a < b THEN b ELSE a

(***************************************************************************)
(* Text helpers.                                                           *)
(***************************************************************************)
Digit == {"0", "1", "2", "3", "4", "5", "6", "7", "8", "9"}
Whitespace == {" "}

IsDigits(s) == \A i \in 1..Len(s) : s[i] \in Digit

RECURSIVE Repeat(_, _)
Repeat(a, n) == IF n = 0 THEN <<>> ELSE <<a>> \o Repeat(a, n - 1)

RECURSIVE SeqsUpTo(_, _)
SeqsUpTo(S, n) ==
    IF n = 0 THEN {<<>>}
    ELSE LET shorter == SeqsUpTo(S, n - 1)
         IN  shorter \cup {Append(s, a) : s \in shorter, a \in S}

\* s occurs in text as a contiguous run of atoms (Python's `s in text`)
Contains(text, s) ==
    \E i \in 0..(Len(text) - Len(s)) :
        \A j \in 1..Len(s) : text[i + j] = s[j]

(***************************************************************************)
(* Decimal values.  float(t) of a text "ddd.fff" is kept as the pair of    *)
(* its integer digits (no leading zeros) and its fraction digits (no       *)
(* trailing zeros), so that dividing by 1e3 or 1e6 moves the point.        *)
(***************************************************************************)
RECURSIVE StripLeadingZeros(_)
StripLeadingZeros(d) ==
    IF d /= <<>> /\ Head(d) = "0" THEN StripLeadingZeros(Tail(d)) ELSE d

RECURSIVE StripTrailingZeros(_)
StripTrailingZeros(d) ==
    IF d /= <<>> /\ d[Len(d)] = "0"
    THEN StripTrailingZeros(SubSeq(d, 1, Len(d) - 1))
    ELSE d

Dec(int, frac) ==
    [int |-> StripLeadingZeros(int), frac |-> StripTrailingZeros(frac)]

\* float(t) for a text the epoch patterns accept: digits, optionally "." digits
ToFloat(s) ==
    LET dot == {i \in 1..Len(s) : s[i] = "."}
    IN  IF dot = {} THEN Dec(s, <<>>)
        ELSE LET i == CHOOSE j \in dot : TRUE
             IN  Dec(SubSeq(s, 1, i - 1), SubSeq(s, i + 1, Len(s)))

\* x / 10^k : the last k integer digits become the first fraction digits
DivPow10(x, k) ==
    LET padded == Repeat("0", k) \o x.int
        n      == Len(padded)
    IN  Dec(SubSeq(padded, 1, n - k), SubSeq(padded, n - k + 1, n) \o x.frac)

(***************************************************************************)
(* The three epoch patterns (re.fullmatch: the whole text must match).     *)
(***************************************************************************)
SecondsMaxDigits == 10
MillisDigits     == 13
MicrosDigits     == 16
MillisShift      == 3
MicrosShift      == 6

\* \d{1,10}(\.\d+)?
EPOCH_SECONDS(s) ==
    \E n \in 1..SecondsMaxDigits :
        /\ n <= Len(s)
        /\ IsDigits(SubSeq(s, 1, n))
        /\ \/ n = Len(s)
           \/ /\ Len(s) >= n + 2
              /\ s[n + 1] = "."
              /\ IsDigits(SubSeq(s, n + 2, Len(s)))

\* a looser pattern, \d{12,13}
EPOCH_MILLISECONDS_loose(s) == Len(s) \in {MillisDigits - 1, MillisDigits} /\ IsDigits(s)

\* \d{13}
EPOCH_MILLISECONDS(s) == Len(s) = MillisDigits /\ IsDigits(s)

\* \d{16}
EPOCH_MICROSECONDS(s) == Len(s) = MicrosDigits /\ IsDigits(s)

(***************************************************************************)
(* pendulum.parse, the natural-language parser the tool calls.  It is a    *)
(* library: what it answers for a text is an input of the model.  It       *)
(* raises ParserError("Unable to parse string [<text>]"), or returns a     *)
(* DateTime (a date or a time alone is completed to one), or returns a     *)
(* value that is no DateTime: a Duration for an ISO 8601 duration such as  *)
(* P1D, a Period for an interval.  "not a time" is rejected (test_cli.py); *)
(* for the other texts over Alphabet either of the first two may happen.   *)
(***************************************************************************)
NotATime   == <<"not", " ", "a", " ", "time">>
IsoDate    == <<"2022-02-21">>
IsoDuration == <<"P1D">>
ClassName  == <<"ParserError">>

ZeroDec == Dec(<<>>, <<>>)
NLInstants == {Dec(<<"1">>, <<>>), Dec(<<"3">>, <<>>)}

ParserErrorMessage(text) ==
    <<"Unable", " ", "to", " ", "parse", " ", "string", " ", "[">> \o text \o <<"]">>

NLRejects == {[kind |-> "ParserError", at |-> ZeroDec]}
NLInstant == {[kind |-> "DateTime", at |-> d] : d \in NLInstants}
NLOther   == {[kind |-> "Other", at |-> ZeroDec]}

PendulumParse(text) ==
    IF text \in {NotATime, ClassName} THEN NLRejects
    ELSE IF text = IsoDuration THEN NLOther
    ELSE IF text = IsoDate THEN NLInstant
    ELSE NLRejects \cup NLInstant

(***************************************************************************)
(* parse_t(t), given what pendulum.parse answers (nl) if it is asked.      *)
(*   ret   : "None" | "DateTime" | "ParserError" | "Exception" (raised)    *)
(*   route : which branch of the if/elif chain ran                         *)
(*   at    : the instant returned (ret = "DateTime")                       *)
(*   given : the text handed to pendulum.parse, if any                     *)
(*   msg   : str() of the exception raised                                 *)
(***************************************************************************)
Returned(ret, route, at, given, msg) ==
    [ret |-> ret, route |-> route, at |-> at, given |-> given, msg |-> msg]

\* str.strip(): the text without its leading and trailing whitespace
RECURSIVE Trim(_)
Trim(s) ==
    IF s /= <<>> /\ Head(s) \in Whitespace THEN Trim(Tail(s))
    ELSE IF s /= <<>> /\ s[Len(s)] \in Whitespace THEN Trim(SubSeq(s, 1, Len(s) - 1))
    ELSE s

\* parse_t as it would be if it classified t.strip()
parse_t_stripped(arg, nl) ==
    LET s == IF arg = None THEN <<>> ELSE Trim(arg[1])
    IN  IF s = <<>> THEN
            Returned("None", "empty", ZeroDec, None, <<>>)
        ELSE IF EPOCH_SECONDS(s) THEN
            Returned("DateTime", "seconds", ToFloat(s), None, <<>>)
        ELSE IF EPOCH_MILLISECONDS(s) THEN
            Returned("DateTime", "milliseconds",
                     DivPow10(ToFloat(s), MillisShift), None, <<>>)
        ELSE IF EPOCH_MICROSECONDS(s) THEN
            Returned("DateTime", "microseconds",
                     DivPow10(ToFloat(s), MicrosShift), None, <<>>)
        ELSE IF nl.kind = "ParserError" THEN
            Returned("ParserError", "natural", ZeroDec, Some(s), ParserErrorMessage(s))
        ELSE IF nl.kind /= "DateTime" THEN
            Returned("Exception", "natural", ZeroDec, Some(s), <<"nope">>)
        ELSE
            Returned("DateTime", "natural", nl.at, Some(s), <<>>)

parse_t(arg, nl) ==
    IF arg = None \/ arg[1] = <<>> THEN
        Returned("None", "empty", ZeroDec, None, <<>>)
    ELSE IF EPOCH_SECONDS(arg[1]) THEN
        Returned("DateTime", "seconds", ToFloat(arg[1]), None, <<>>)
    ELSE IF EPOCH_MILLISECONDS(arg[1]) THEN
        Returned("DateTime", "milliseconds",
                 DivPow10(ToFloat(arg[1]), MillisShift), None, <<>>)
    ELSE IF EPOCH_MICROSECONDS(arg[1]) THEN
        Returned("DateTime", "microseconds",
                 DivPow10(ToFloat(arg[1]), MicrosShift), None, <<>>)
    ELSE IF nl.kind = "ParserError" THEN
        Returned("ParserError", "natural", ZeroDec, arg, ParserErrorMessage(arg[1]))
    ELSE IF nl.kind /= "DateTime" THEN
        Returned("Exception", "natural", ZeroDec, arg, <<"nope">>)
    ELSE
        Returned("DateTime", "natural", nl.at, arg, <<>>)

(***************************************************************************)
(* SpecParse: parse_t called once on a text drawn from ParseInputs.        *)
(***************************************************************************)
Alphabet == {"0", "7", ".", " ", "x"}

DigitSource ==
    <<"1", "6", "4", "5", "4", "7", "8", "9", "5", "2", "9", "8", "5", "8", "6", "9">>
DigitRun(n) == [i \in 1..n |-> DigitSource[((i - 1) % Len(DigitSource)) + 1]]
ZeroRun(n)  == Repeat("0", n)

Fractions == {<<>>} \cup {<<".">> \o DigitRun(k) : k \in 0..MaxFrac}
NumberTexts ==
    {run \o f : run \in {DigitRun(n) : n \in 0..MaxDigits}
                        \cup {ZeroRun(n) : n \in 0..MaxDigits},
                f \in Fractions}
Padded(S) ==
    {Repeat(" ", a) \o s \o Repeat(" ", b) : s \in S, a \in 0..MaxPad, b \in 0..MaxPad}
WordTexts == {NotATime, IsoDate, IsoDuration, ClassName}

ParseTexts  == Padded(NumberTexts) \cup SeqsUpTo(Alphabet, MaxFree) \cup WordTexts
ParseInputs == {None} \cup {Some(s) : s \in ParseTexts}

NotCalled == Returned("None", "empty", ZeroDec, None, <<>>)

IdleParse == pt = None /\ presult = NotCalled /\ ppc = "idle"
IdleCli ==
    /\ t = <<>> /\ timezones = <<>> /\ add_utc = TRUE /\ add_local = TRUE
    /\ opt_clock = FALSE /\ local_name = "" /\ wall = 0 /\ now = <<>>
    /\ parsed = <<>> /\ target = <<>> /\ good_timezones = <<>> /\ bad_timezones = <<>>
    /\ display_timezones = <<>> /\ stdout = <<>> /\ stderr = <<>>
    /\ exit_code = <<>> /\ screen = "normal" /\ live = <<>>
    /\ interrupted = FALSE /\ pc = "idle"
IdleClock ==
    /\ max_height = 0 /\ ctarget = <<>> /\ clock = <<>>
    /\ sixtieth = 0 /\ written = <<>> /\ cpc = "idle"
IdlePart  == items = <<>> /\ is_left = <<>> /\ partitioned = <<>> /\ qpc = "idle"

InitParse ==
    /\ pt \in ParseInputs
    /\ presult = NotCalled
    /\ ppc = "call"
    /\ IdlePart
    /\ IdleClock
    /\ IdleCli

\* the call: the natural-language parser's answer is used only if it is asked
ParseT ==
    /\ ppc = "call"
    /\ \E nl \in PendulumParse(IF pt = None THEN <<>> ELSE pt[1]) :
           presult' = parse_t(pt, nl)
    /\ ppc' = "returned"
    /\ UNCHANGED <<pt, partVars, clockVars, cliVars>>

NextParse == ParseT

SpecParse == InitParse /\ [][NextParse]_vars

(***************************************************************************)
(* Properties of parse_t (SpecParse).                                      *)
(***************************************************************************)
PText == IF pt = None THEN <<>> ELSE pt[1]

\* number of digit atoms at the front of s
RECURSIVE LeadingDigits(_)
LeadingDigits(s) ==
    IF s /= <<>> /\ Head(s) \in Digit THEN 1 + LeadingDigits(Tail(s)) ELSE 0

AllDigitText(s, n) == Len(s) = n /\ LeadingDigits(s) = n

\* 1 to 10 digits, then nothing or "." and at least one digit and only digits
SecondsShape(s) ==
    LET k == LeadingDigits(s)
    IN  /\ k \in 1..10
        /\ \/ k = Len(s)
           \/ /\ k + 1 < Len(s)
              /\ s[k + 1] = "."
              /\ LeadingDigits(SubSeq(s, k + 2, Len(s))) = Len(s) - k - 1

\* x * 10^k : the first k fraction digits become the last integer digits
TimesPow10(x, k) ==
    LET padded == x.frac \o Repeat("0", k)
    IN  Dec(x.int \o SubSeq(padded, 1, k), SubSeq(padded, k + 1, Len(padded)))

\* C2: parse_t classifies by the first matching rule: None or "" gives None;
\* 1-10 digits with an optional fraction is epoch seconds; exactly 13 digits is
\* epoch milliseconds (value / 1000); exactly 16 digits is epoch microseconds
\* (value / 1,000,000); any other text (all-digit texts of 11, 12, 14, 15, 17 or
\* more digits included) is handed to the natural-language parser and is not
\* converted as an epoch value.
C2_ClassifierRuleOrder ==
    ppc = "returned" =>
        IF pt = None \/ PText = <<>> THEN
            presult.ret = "None" /\ presult.given = None
        ELSE IF SecondsShape(PText) THEN
            /\ presult.ret = "DateTime" /\ presult.route = "seconds"
            /\ presult.given = None
            /\ presult.at = ToFloat(PText)
        ELSE IF AllDigitText(PText, 13) THEN
            /\ presult.ret = "DateTime" /\ presult.route = "milliseconds"
            /\ presult.given = None
            /\ TimesPow10(presult.at, 3) = ToFloat(PText)
        ELSE IF AllDigitText(PText, 16) THEN
            /\ presult.ret = "DateTime" /\ presult.route = "microseconds"
            /\ presult.given = None
            /\ TimesPow10(presult.at, 6) = ToFloat(PText)
        ELSE
            /\ presult.route = "natural"
            /\ presult.given = pt
            /\ presult.ret /= "None"
            /\ presult.ret = "DateTime" => presult.at \in NLInstants

C2_Witness ==
    /\ ppc = "returned"
    /\ pt = Some(DigitRun(13))
    /\ presult.route = "milliseconds"
    /\ presult.at = Dec(DigitRun(10), <<"9", "8", "5">>)

HasPadding(s) ==
    s /= <<>> /\ (Head(s) \in Whitespace \/ s[Len(s)] \in Whitespace)

\* C7 as stated: the rules are applied to the trimmed input, so a text with
\* whitespace around it is classified as the text without it (a whitespace-only
\* text gives None, a padded epoch text gives that epoch value).
C7_TrimmedBeforeClassifying ==
    (ppc = "returned" /\ pt /= None) =>
        \E nl \in PendulumParse(Trim(PText)) :
            LET trimmed == parse_t(Some(Trim(PText)), nl)
            IN  /\ presult.ret = trimmed.ret
                /\ presult.route = trimmed.route
                /\ presult.at = trimmed.at

\* C7 as amended: the rules are applied to the text as given.  A text with
\* leading or trailing whitespace is never taken as empty nor as an epoch value:
\* parse_t hands it, untrimmed, to the natural-language parser.
C7_PaddedTextGoesToNaturalParser ==
    (ppc = "returned" /\ pt /= None /\ HasPadding(PText)) =>
        /\ presult.route = "natural"
        /\ presult.given = pt
        /\ presult.ret /= "None"

C7_Witness ==
    /\ ppc = "returned"
    /\ pt = Some(<<" ">> \o DigitRun(10) \o <<" ">>)
    /\ presult.route = "natural"

(***************************************************************************)
(* partition (src/when/utils.py) and SpecPartition: one call on a sequence *)
(* over Elems with a predicate drawn from [Elems -> BOOLEAN].              *)
(***************************************************************************)
Elems == {1, 2, 3}

\* the loop from item i on, with the two lists built so far
RECURSIVE PartitionLoop(_, _, _, _, _)
PartitionLoop(xs, p, i, left, right) ==
    IF i > Len(xs) THEN <<left, right>>
    ELSE IF p[xs[i]]
         THEN PartitionLoop(xs, p, i + 1, Append(left, xs[i]), right)
         ELSE PartitionLoop(xs, p, i + 1, left, Append(right, xs[i]))

\* partition as it would be if it put each item at the front of its list
RECURSIVE PartitionLoopPrepending(_, _, _, _, _)
PartitionLoopPrepending(xs, p, i, left, right) ==
    IF i > Len(xs) THEN <<left, right>>
    ELSE IF p[xs[i]]
         THEN PartitionLoopPrepending(xs, p, i + 1, <<xs[i]>> \o left, right)
         ELSE PartitionLoopPrepending(xs, p, i + 1, left, <<xs[i]>> \o right)

partition_prepending(xs, p) == PartitionLoopPrepending(xs, p, 1, <<>>, <<>>)

partition(xs, p) == PartitionLoop(xs, p, 1, <<>>, <<>>)

InitPartition ==
    /\ items \in SeqsUpTo(Elems, MaxItems)
    /\ is_left \in [Elems -> BOOLEAN]
    /\ partitioned = <<>>
    /\ qpc = "call"
    /\ IdleParse
    /\ IdleClock
    /\ IdleCli

Partition ==
    /\ qpc = "call"
    /\ partitioned' = partition(items, is_left)
    /\ qpc' = "returned"
    /\ UNCHANGED <<items, is_left, parseVars, clockVars, cliVars>>

NextPartition == Partition

SpecPartition == InitPartition /\ [][NextPartition]_vars

Count(s, e) == Cardinality({i \in 1..Len(s) : s[i] = e})

\* s is xs restricted to the positions in keep, in the order of xs
IsSubsequenceAt(s, xs, keep) ==
    /\ Len(s) = Cardinality(keep)
    /\ \A i \in 1..Len(s) :
           \E k \in keep :
               /\ Cardinality({j \in keep : j <= k}) = i
               /\ s[i] = xs[k]

\* C3: partition(items, p) returns (left, right): left is the subsequence of
\* items whose elements satisfy p, right the subsequence of those that do not,
\* each in the order of items; so the lengths add up to len(items), the multiset
\* union is the multiset of items, and an empty input gives two empty lists.
C3_PartitionSplitsInOrder ==
    qpc = "returned" =>
        LET left  == partitioned[1]
            right == partitioned[2]
        IN  /\ IsSubsequenceAt(left, items, {i \in 1..Len(items) : is_left[items[i]]})
            /\ IsSubsequenceAt(right, items, {i \in 1..Len(items) : ~is_left[items[i]]})
            /\ Len(left) + Len(right) = Len(items)
            /\ \A e \in Elems : Count(left, e) + Count(right, e) = Count(items, e)
            /\ items = <<>> => (left = <<>> /\ right = <<>>)

C3_Witness ==
    /\ qpc = "returned"
    /\ items = <<2, 1, 2>>
    /\ partitioned = <<<<2, 2>>, <<1>>>>

(***************************************************************************)
(* The clock face: Clock.__rich_console__ and draw_hand.                   *)
(*                                                                         *)
(* Angles are counted in sixtieths of a turn (one tick).  cos and sin of a *)
(* whole number of ticks come from SinTable (sin of 0, 6, ..., 90 degrees, *)
(* times Scale).  round() of a value that lies exactly between two         *)
(* integers depends on the last bit of the float, so either neighbour may  *)
(* come out.                                                               *)
(***************************************************************************)
Border       == 2
TicksPerTurn == 60
Scale        == 1000
SinTable ==
    <<0, 105, 208, 309, 407, 500, 588, 669, 743, 809, 866, 914, 951, 978, 995, 1000>>
QuarterTurn == TicksPerTurn \div 4
HalfTurn    == TicksPerTurn \div 2

Sin60(a) ==
    LET k == a % TicksPerTurn
    IN  IF k <= QuarterTurn THEN SinTable[k + 1]
        ELSE IF k <= HalfTurn THEN SinTable[HalfTurn - k + 1]
        ELSE IF k <= HalfTurn + QuarterTurn THEN -SinTable[k - HalfTurn + 1]
        ELSE -SinTable[TicksPerTurn - k + 1]

Cos60(a) == Sin60(a + QuarterTurn)

\* (frac * TAU) - TAU / 4, for frac = k / 60
fraction_to_clock_angle(k) == k - QuarterTurn

\* round(num / den), den > 0
RoundSet(num, den) ==
    LET q == num \div den
        r == num % den
    IN  IF 2 * r < den THEN {q}
        ELSE IF 2 * r > den THEN {q + 1}
        ELSE {q, q + 1}

RoundDiv(num, den) == IF den > 0 THEN RoundSet(num, den) ELSE RoundSet(-num, -den)

SetMin(S) == CHOOSE x \in S : \A y \in S : x <= y
SetMax(S) == CHOOSE x \in S : \A y \in S : y <= x

(* round(cos(theta) * radius) or round(sin(theta) * radius) for the angle fraction
   n / (60 * sub) of a turn, given the scaled value at the tick before (here) and
   at the tick after (next).  On a tick the table gives the value; between two
   ticks cos and sin are monotone, so the value lies between the two ticks'. *)
RoundedBetween(here, next, on_tick) ==
    IF on_tick THEN RoundSet(here, Scale)
    ELSE LET both == RoundSet(here, Scale) \cup RoundSet(next, Scale)
         IN  SetMin(both)..SetMax(both)

HandXs(n, sub, radius) ==
    LET k == n \div sub
    IN  RoundedBetween(Cos60(fraction_to_clock_angle(k)) * radius,
                       Cos60(fraction_to_clock_angle(k + 1)) * radius, n % sub = 0)

HandYs(n, sub, radius) ==
    LET k == n \div sub
    IN  RoundedBetween(Sin60(fraction_to_clock_angle(k)) * radius,
                       Sin60(fraction_to_clock_angle(k + 1)) * radius, n % sub = 0)

\* a write clock[y][c] = cell, or clock[y][c : c + len(cells)] = cells
ItemWrite(y, c, cell)   == [y |-> y, c |-> c, cells |-> <<cell>>, slice |-> FALSE]
SliceWrite(y, c, cells) == [y |-> y, c |-> c, cells |-> cells, slice |-> TRUE]

\* Python list indexing: -len..len-1 are valid, a negative index counts from the end
IndexOK(i, len)  == i \in (-len)..(len - 1)
Position(i, len) == IF i < 0 THEN i + len + 1 ELSE i + 1

SetSlice(row, c, cells) ==
    LET a == Min(c, Len(row))
        b == Min(c + Len(cells), Len(row))
    IN  SubSeq(row, 1, a) \o cells \o SubSeq(row, b + 1, Len(row))

\* the writes ws from the i-th on; stops at the first that raises IndexError
RECURSIVE ApplyWrites(_, _, _)
ApplyWrites(grid, ws, i) ==
    IF i > Len(ws) THEN [clock |-> grid, raised |-> FALSE, done |-> ws]
    ELSE LET w == ws[i]
         IN  IF ~IndexOK(w.y, Len(grid))
             THEN [clock |-> grid, raised |-> TRUE, done |-> SubSeq(ws, 1, i)]
             ELSE LET r   == Position(w.y, Len(grid))
                      row == grid[r]
                  IN  IF w.slice
                      THEN ApplyWrites([grid EXCEPT ![r] = SetSlice(row, w.c, w.cells)],
                                       ws, i + 1)
                      ELSE IF ~IndexOK(w.c, Len(row))
                      THEN [clock |-> grid, raised |-> TRUE, done |-> SubSeq(ws, 1, i)]
                      ELSE ApplyWrites(
                               [grid EXCEPT ![r][Position(w.c, Len(row))] = w.cells[1]],
                               ws, i + 1)

Size   == max_height - Border
Center == Size \div 2
Radius == Center

DigitChar(d) == <<"0", "1", "2", "3", "4", "5", "6", "7", "8", "9">>[d + 1]

\* str(n) for 0 <= n < 100
Str(n) == IF n < 10 THEN <<DigitChar(n)>> ELSE <<DigitChar(n \div 10), DigitChar(n % 10)>>

\* the blank grid: size rows of 2 * size cells and a newline cell
BlankClock(size) == [y \in 1..size |-> Repeat(" ", 2 * size) \o <<"\n">>]

\* the possible writes of one pass of the tick loop
TickWrites(k, center, radius) ==
    LET theta == fraction_to_clock_angle(k)
    IN  {IF k % 5 = 0
         THEN SliceWrite(y + center, (x + center) * 2, Str(k \div 5))
         ELSE ItemWrite(y + center, (x + center) * 2, ".")
           : x \in RoundSet(Cos60(theta) * radius, Scale),
             y \in RoundSet(Sin60(theta) * radius, Scale)}

\* draw_hand, dx > dy: one cell per x in range(start, stop)
RECURSIVE HandAlongX(_, _, _, _, _)
HandAlongX(center, second_x, second_y, x, stop) ==
    IF x >= stop THEN {<<>>}
    ELSE LET ys    == {r + center :
                          r \in RoundDiv((second_y - center) * (x - center),
                                         second_x - center)}
             cells == {IF x = center /\ y = center THEN <<>>
                       ELSE <<ItemWrite(y, x * 2, ".")>> : y \in ys}
         IN  {c \o rest : c \in cells,
                          rest \in HandAlongX(center, second_x, second_y, x + 1, stop)}

\* draw_hand, dx <= dy and second_x /= center: one cell per y in range(start, stop)
RECURSIVE HandAlongY(_, _, _, _, _)
HandAlongY(center, second_x, second_y, y, stop) ==
    IF y >= stop THEN {<<>>}
    ELSE LET xs    == {r + center :
                          r \in RoundDiv((y - center) * (second_x - center),
                                         second_y - center)}
             cells == {IF x = center /\ y = center THEN <<>>
                       ELSE <<ItemWrite(y, x * 2, ".")>> : x \in xs}
         IN  {c \o rest : c \in cells,
                          rest \in HandAlongY(center, second_x, second_y, y + 1, stop)}

\* draw_hand, second_x = center: the cells straight above or below the center
RECURSIVE HandUpright(_, _, _)
HandUpright(center, y, stop) ==
    IF y >= stop THEN <<>>
    ELSE (IF y = center THEN <<>> ELSE <<ItemWrite(y, center * 2, ".")>>)
         \o HandUpright(center, y + 1, stop)

\* the possible sequences of writes of draw_hand for an end point
draw_hand(center, second_x, second_y, last) ==
    LET dx   == IF center > second_x THEN center - second_x ELSE second_x - center
        dy   == IF center > second_y THEN center - second_y ELSE second_y - center
        body == IF dx > dy
                THEN HandAlongX(center, second_x, second_y,
                                Min(center, second_x), Max(center, second_x))
                ELSE IF second_x /= center
                THEN HandAlongY(center, second_x, second_y,
                                Min(center, second_y), Max(center, second_y))
                ELSE {HandUpright(center, Min(center, second_y), Max(center, second_y))}
    IN  {b \o <<ItemWrite(second_y, second_x * 2, last)>> : b \in body}

\* the angle fraction of each hand as n / (60 * sub) of a turn
HourSub   == 720
MinuteSub == 60
SecondSub == 1
HandFraction(hand, at) ==
    IF hand = "hour"
    THEN [n   |-> (at.hour * 3600 + at.minute * 60 + at.second) % (12 * 3600),
          sub |-> HourSub]
    ELSE IF hand = "minute"
    THEN [n |-> at.minute * 60 + at.second, sub |-> MinuteSub]
    ELSE [n |-> at.second, sub |-> SecondSub]

HandLabel(hand) == IF hand = "hour" THEN "H" ELSE IF hand = "minute" THEN "M" ELSE "S"
NextHand(hand)  == IF hand = "hour" THEN "minute" ELSE IF hand = "minute" THEN "second" ELSE "yield"

Times ==
    {[hour |-> 0,  minute |-> 0,  second |-> 0],
     [hour |-> 3,  minute |-> 15, second |-> 15],
     [hour |-> 6,  minute |-> 30, second |-> 30],
     [hour |-> 17, minute |-> 52, second |-> 7],
     [hour |-> 21, minute |-> 40, second |-> 53]}

Footprint(ws) == [i \in 1..Len(ws) |-> [y |-> ws[i].y, c |-> ws[i].c, n |-> Len(ws[i].cells)]]

InitClock ==
    /\ max_height \in (Border + 1)..MaxHeight
    /\ ctarget \in Times
    /\ clock = <<>>
    /\ sixtieth = 0
    /\ written = <<>>
    /\ cpc = "new"
    /\ IdleParse
    /\ IdlePart
    /\ IdleCli

\* lines 243-249: the blank grid and the center marker
ClockBegin ==
    /\ cpc = "new"
    /\ LET did == ApplyWrites(BlankClock(Size),
                              <<ItemWrite(Center, Center * 2, "*")>>, 1)
       IN  /\ clock' = did.clock
           /\ written' = Footprint(did.done)
           /\ cpc' = IF did.raised THEN "raised" ELSE "ticks"
    /\ sixtieth' = 1
    /\ UNCHANGED <<max_height, ctarget, parseVars, partVars, cliVars>>

\* lines 251-260: one pass of the loop over range(1, 61)
ClockTick ==
    /\ cpc = "ticks"
    /\ \E w \in TickWrites(sixtieth, Center, Radius) :
           LET did == ApplyWrites(clock, <<w>>, 1)
           IN  /\ clock' = did.clock
               /\ written' = Footprint(did.done)
               /\ cpc' = IF did.raised THEN "raised"
                         ELSE IF sixtieth = TicksPerTurn THEN "hour"
                         ELSE "ticks"
    /\ sixtieth' = IF sixtieth = TicksPerTurn THEN sixtieth ELSE sixtieth + 1
    /\ UNCHANGED <<max_height, ctarget, parseVars, partVars, cliVars>>

\* lines 262-287 and 299-330: one call of draw_hand
ClockHand ==
    /\ cpc \in {"hour", "minute", "second"}
    /\ LET f == HandFraction(cpc, ctarget)
       IN  \E x \in HandXs(f.n, f.sub, Radius),
              y \in HandYs(f.n, f.sub, Radius) :
               \E ws \in draw_hand(Center, x + Center, y + Center, HandLabel(cpc)) :
                   LET did == ApplyWrites(clock, ws, 1)
                   IN  /\ clock' = did.clock
                       /\ written' = Footprint(did.done)
                       /\ cpc' = IF did.raised THEN "raised" ELSE NextHand(cpc)
    /\ UNCHANGED <<max_height, ctarget, sixtieth, parseVars, partVars, cliVars>>

\* lines 289-292: the rows are handed to the display
ClockYield ==
    /\ cpc = "yield"
    /\ cpc' = "rendered"
    /\ written' = <<>>
    /\ UNCHANGED <<max_height, ctarget, clock, sixtieth, parseVars, partVars, cliVars>>

NextClock == ClockBegin \/ ClockTick \/ ClockHand \/ ClockYield

SpecClock == InitClock /\ [][NextClock]_vars

InGrid(w) ==
    /\ w.y \in 0..(Size - 1)
    /\ w.c >= 0
    /\ w.c + w.n - 1 <= 2 * Size - 1

RowsIntact ==
    /\ Len(clock) = Size
    /\ \A y \in 1..Len(clock) :
           /\ Len(clock[y]) = 2 * Size + 1
           /\ clock[y][2 * Size + 1] = "\n"
           /\ \A c \in 1..(2 * Size) : clock[y][c] /= "\n"

\* C9: for every render height with size = max_height - 2 >= 1, even or odd,
\* every cell written while rendering a frame (center marker, ticks, hour labels,
\* hands and their end points) has its row in 0..size-1 and its column in
\* 0..2*size-1: no write raises an index error or replaces a row's newline cell,
\* and every row keeps 2*size glyph cells and then the newline.
C9_EveryWriteInsideGrid ==
    cpc \notin {"idle", "new"} =>
        /\ cpc /= "raised"
        /\ \A i \in 1..Len(written) : InGrid(written[i])
        /\ RowsIntact

\* what does hold: with an odd size (center + radius = size - 1) every write is
\* inside the grid and the rendering reaches its end
OddSizeWritesInsideGrid ==
    (cpc \notin {"idle", "new"} /\ Size % 2 = 1) =>
        /\ cpc /= "raised"
        /\ \A i \in 1..Len(written) : InGrid(written[i])
        /\ RowsIntact

\* with an even size the rendering never reaches its end
EvenSizeNeverRendered == (cpc = "rendered") => Size % 2 = 1

(***************************************************************************)
(* The command `when` (Spec): one run, from its arguments to its exit.     *)
(* Instants are whole seconds since the epoch.                             *)
(***************************************************************************)
available_timezones == {"UTC", "Europe/Paris", "Asia/Tokyo"}
UnknownNames == {"Europ/Paris", "Mars/Base"}
Names        == available_timezones \cup UnknownNames
LocalNames   == {"Europe/Paris", "UTC"}

TimeArgs ==
    {None, Some(<<>>), Some(<<"0">>), Some(<<"2">>), Some(DigitRun(11)),
     Some(NotATime), Some(IsoDate), Some(IsoDuration), Some(ClassName), Some(<<" ">>)}

\* the whole seconds of a decimal value
RECURSIVE DigitsToNat(_)
DigitsToNat(d) ==
    IF d = <<>> THEN 0
    ELSE 10 * DigitsToNat(SubSeq(d, 1, Len(d) - 1))
         + (CHOOSE n \in 0..9 : DigitChar(n) = d[Len(d)])
Instant(x) == DigitsToNat(x.int)

\* tz.utcoffset(now), in hours
UtcOffset(name) ==
    IF name = "Europe/Paris" THEN 1 ELSE IF name = "Asia/Tokyo" THEN 9 ELSE 0

(* Timezone objects.  pendulum.timezone(name) answers the constant UTC for "UTC"
   and one cached object per other name; pendulum.local_timezone() answers an
   object of its own, built from the machine's settings.  The class defines no
   __eq__ or __hash__, so a set keeps two objects apart even if they carry the
   same name. *)
UTC == [name |-> "UTC", made_by |-> "UTC"]
pendulum_timezone(name) ==
    IF name = "UTC" THEN UTC ELSE [name |-> name, made_by |-> "timezone"]
pendulum_local_timezone == [name |-> local_name, made_by |-> "local_timezone"]

\* difflib.SequenceMatcher(None, known, word).ratio(), in percent
Ratio(word, known) ==
    IF word = known THEN 100
    ELSE IF word = "Europ/Paris" /\ known = "Europe/Paris" THEN 96
    ELSE IF word = "Europ/Paris" /\ known = "Asia/Tokyo" THEN 10
    ELSE IF word = "Mars/Base" /\ known = "Europe/Paris" THEN 29
    ELSE IF word = "Mars/Base" /\ known = "Asia/Tokyo" THEN 21
    ELSE 0

CloseMatchCount  == 3
CloseMatchCutoff == 60

\* the names of S, best ratio first
RECURSIVE BestFirst(_, _)
BestFirst(word, S) ==
    IF S = {} THEN <<>>
    ELSE LET best == CHOOSE x \in S : \A y \in S : Ratio(word, x) >= Ratio(word, y)
         IN  <<best>> \o BestFirst(word, S \ {best})

get_close_matches(word, possibilities) ==
    LET close == BestFirst(word, {x \in possibilities :
                                     Ratio(word, x) >= CloseMatchCutoff})
    IN  SubSeq(close, 1, Min(Len(close), CloseMatchCount))

\* what display_bad_timezone_help prints: nothing, or one message naming each
\* unknown timezone with its near matches
display_bad_timezone_help(available, bad) ==
    IF bad = <<>> THEN <<>>
    ELSE <<[kind    |-> "help",
            entries |-> [i \in 1..Len(bad) |->
                            [name    |-> bad[i],
                             matches |-> get_close_matches(bad[i], available)]]]>>

\* sorted(display_timezones, key=utcoffset, reverse=True): a set has no order of
\* its own, so objects with equal offsets may come in any order
RECURSIVE SortedByOffset(_)
SortedByOffset(S) ==
    IF S = {} THEN {<<>>}
    ELSE UNION {{<<x>> \o rest : rest \in SortedByOffset(S \ {x})} :
                   x \in {y \in S : \A z \in S : UtcOffset(y.name) >= UtcOffset(z.name)}}

Abs(n) == IF n < 0 THEN -n ELSE n

\* a mistaken suffix: "ago" for a target after now
RelativeSuffixReversed(diff) == IF diff > 0 THEN "ago" ELSE "from now"

\* 'ago' if diff.total_seconds() < 0 else 'from now', diff being target - now
RelativeSuffix(diff) == IF diff < 0 THEN "ago" ELSE "from now"

\* instant.astimezone(tz).to_datetime_string(): the civil time, no offset shown
Civil(instant, tz) == instant + 3600 * UtcOffset(tz.name)

\* RichTime(target, now, timezones).__rich__(): the two tables
RichTime(target_, now_, zones) ==
    LET diff     == target_ - now_
        relative == IF target_ /= now_
                    THEN <<[label |-> "Relative to Now", n |-> Abs(diff),
                            text |-> RelativeSuffix(diff)]>>
                    ELSE <<>>
        epochs   == <<[label |-> "Epoch Timestamp (s)", n |-> target_, text |-> ""],
                      [label |-> "Epoch Timestamp (ms)", n |-> target_ * 1000, text |-> ""],
                      [label |-> "Epoch Timestamp (us)", n |-> target_ * 1000000,
                       text |-> ""]>>
        columns  == IF target_ = now_ THEN <<"Timezone", "Now">>
                    ELSE <<"Timezone", "Target", "Now">>
        rows     == [i \in 1..Len(zones) |->
                        [name  |-> zones[i].name,
                         cells |-> IF target_ = now_
                                   THEN <<Civil(now_, zones[i])>>
                                   ELSE <<Civil(target_, zones[i]), Civil(now_, zones[i])>>]]
    IN  [kind |-> "report", metadata |-> relative \o epochs,
         columns |-> columns, rows |-> rows]

\* a mistaken message: repr(e), which names the class
ErrorTextRepr(r) == <<"ParserError", "(">> \o r.msg \o <<")">>

\* str(e), the text line 115 prints for a ParserError
ErrorText(r) == r.msg

\* what the interpreter prints for an exception nothing catches
Traceback(r) == <<"Traceback", " ", "Exception", ":", " ">> \o r.msg

\* a frame built from the sample taken when the run began
FrameTargetStale == now[1]

\* Clock(target=pendulum.now()): the frame's time is read when it is built
FrameTarget == wall

\* the predicate of line 119 as it would be if it accepted every name
IsAvailableAny(name) == TRUE

\* lambda tz: tz in available_timezones
IsAvailable(name) == name \in available_timezones

Init ==
    /\ t \in TimeArgs
    /\ timezones \in SeqsUpTo(Names, MaxZones)
    /\ add_utc \in BOOLEAN
    /\ add_local \in BOOLEAN
    /\ opt_clock \in BOOLEAN
    /\ local_name \in LocalNames
    /\ wall \in 0..(MaxWall - 1)
    /\ now = None /\ parsed = None /\ target = None
    /\ good_timezones = None /\ bad_timezones = None /\ display_timezones = None
    /\ stdout = <<>> /\ stderr = <<>> /\ exit_code = None
    /\ screen = "normal" /\ live = None /\ interrupted = FALSE
    /\ pc = "start"
    /\ IdleParse
    /\ IdlePart
    /\ IdleClock

\* lines 99-104: the consoles, the sample of the current time, the choice of mode
Start ==
    /\ pc = "start"
    /\ now' = Some(wall)
    /\ pc' = IF opt_clock THEN "enter_live" ELSE "parse"
    /\ UNCHANGED <<t, timezones, add_utc, add_local, opt_clock, local_name, wall,
                   parsed, target, good_timezones, bad_timezones, display_timezones,
                   stdout, stderr, exit_code, screen, live, interrupted,
                   parseVars, partVars, clockVars>>

\* lines 105-107: entering the Live display takes the alternate screen
EnterLive ==
    /\ pc = "enter_live"
    /\ live' = Some([target |-> wall])
    /\ screen' = "alternate"
    /\ pc' = "update"
    /\ UNCHANGED <<t, timezones, add_utc, add_local, opt_clock, local_name, wall, now,
                   parsed, target, good_timezones, bad_timezones, display_timezones,
                   stdout, stderr, exit_code, interrupted,
                   parseVars, partVars, clockVars>>

\* line 109: a new frame from a new sample is handed to the display
LiveUpdate ==
    /\ pc = "update"
    /\ live' = Some([target |-> FrameTarget])
    /\ pc' = "sleep"
    /\ UNCHANGED <<t, timezones, add_utc, add_local, opt_clock, local_name, wall, now,
                   parsed, target, good_timezones, bad_timezones, display_timezones,
                   stdout, stderr, exit_code, screen, interrupted,
                   parseVars, partVars, clockVars>>

\* line 110: time passes
Sleep ==
    /\ pc = "sleep"
    /\ wall' = Min(wall + 1, MaxWall)
    /\ pc' = "update"
    /\ UNCHANGED <<t, timezones, add_utc, add_local, opt_clock, local_name, now,
                   parsed, target, good_timezones, bad_timezones, display_timezones,
                   stdout, stderr, exit_code, screen, live, interrupted,
                   parseVars, partVars, clockVars>>

\* a KeyboardInterrupt inside the with block: Live's exit gives the screen back,
\* then the command ends
Interrupt ==
    /\ pc \in {"update", "sleep"}
    /\ interrupted' = TRUE
    /\ screen' = "normal"
    /\ live' = None
    /\ stderr' = <<"Aborted!">>
    /\ exit_code' = Some(1)
    /\ pc' = "exited"
    /\ UNCHANGED <<t, timezones, add_utc, add_local, opt_clock, local_name, wall, now,
                   parsed, target, good_timezones, bad_timezones, display_timezones,
                   stdout, parseVars, partVars, clockVars>>

\* lines 112-116: target = parse_t(t) or now, and the handler of ParserError
ParseTime ==
    /\ pc = "parse"
    /\ \E nl \in PendulumParse(IF t = None THEN <<>> ELSE t[1]) :
           LET r == parse_t(t, nl)
           IN  /\ parsed' = Some(r)
               /\ target' = IF r.ret = "None" THEN now
                            ELSE IF r.ret = "DateTime" THEN Some(Instant(r.at))
                            ELSE None
               /\ stderr' = IF r.ret = "ParserError" THEN ErrorText(r)
                            ELSE IF r.ret = "Exception" THEN Traceback(r)
                            ELSE stderr
               /\ exit_code' = IF r.ret \in {"ParserError", "Exception"} THEN Some(1)
                               ELSE None
               /\ pc' = IF r.ret = "ParserError" THEN "exited"
                        ELSE IF r.ret = "Exception" THEN "crashed"
                        ELSE "resolve"
    /\ UNCHANGED <<t, timezones, add_utc, add_local, opt_clock, local_name, wall, now,
                   good_timezones, bad_timezones, display_timezones,
                   stdout, screen, live, interrupted,
                   parseVars, partVars, clockVars>>

\* lines 118-126: the names are split, the unknown ones reported, the set built
Resolve ==
    /\ pc = "resolve"
    /\ LET split == partition(timezones, [n \in Names |-> IsAvailable(n)])
           good  == split[1]
           bad   == split[2]
       IN  /\ good_timezones' = Some(good)
           /\ bad_timezones' = Some(bad)
           /\ stdout' = stdout \o display_bad_timezone_help(available_timezones, bad)
           /\ display_timezones' =
                  Some({pendulum_timezone(good[i]) : i \in 1..Len(good)}
                       \cup (IF add_utc THEN {UTC} ELSE {})
                       \cup (IF add_local THEN {pendulum_local_timezone} ELSE {}))
    /\ pc' = "report"
    /\ UNCHANGED <<t, timezones, add_utc, add_local, opt_clock, local_name, wall, now,
                   parsed, target, stderr, exit_code, screen, live, interrupted,
                   parseVars, partVars, clockVars>>

\* lines 128-134: the report is built and printed, and the command returns
Report ==
    /\ pc = "report"
    /\ \E zones \in SortedByOffset(display_timezones[1]) :
           stdout' = Append(stdout, RichTime(target[1], now[1], zones))
    /\ exit_code' = Some(0)
    /\ pc' = "exited"
    /\ UNCHANGED <<t, timezones, add_utc, add_local, opt_clock, local_name, wall, now,
                   parsed, target, good_timezones, bad_timezones, display_timezones,
                   stderr, screen, live, interrupted,
                   parseVars, partVars, clockVars>>

Next ==
    \/ Start
    \/ EnterLive
    \/ LiveUpdate
    \/ Sleep
    \/ Interrupt
    \/ ParseTime
    \/ Resolve
    \/ Report

Spec == Init /\ [][Next]_vars

(***************************************************************************)
(* Properties of a run of `when` (Spec).                                   *)
(***************************************************************************)
TText == IF t = None THEN <<>> ELSE t[1]
Ended == pc \in {"exited", "crashed"}
Raised(what) == parsed /= None /\ parsed[1].ret = what
InSeq(s, e) == \E i \in 1..Len(s) : s[i] = e
Reports == {i \in 1..Len(stdout) : stdout[i].kind = "report"}
Helps   == {i \in 1..Len(stdout) : stdout[i].kind = "help"}
RowNames(r) == {r.rows[i].name : i \in 1..Len(r.rows)}

\* C1 as stated: in report mode, a time argument that matches no epoch pattern
\* and that the natural-language parser rejects ends the run with exit code 1;
\* the error stream's text contains the argument and does not contain the class
\* name ParserError; nothing is printed on standard output.
C1_RejectedTextNeverNamesTheClass ==
    (~opt_clock /\ Raised("ParserError")) =>
        /\ pc = "exited"
        /\ exit_code = Some(1)
        /\ Contains(stderr, TText)
        /\ ~Contains(stderr, ClassName)
        /\ stdout = <<>>

\* C1 as amended: the same, except that the text is the parser's message around
\* the argument, so it contains the class name exactly when the argument itself
\* contains it.
C1_RejectedTextReported ==
    (~opt_clock /\ Raised("ParserError")) =>
        /\ pc = "exited"
        /\ exit_code = Some(1)
        /\ Contains(stderr, TText)
        /\ Contains(stderr, ClassName) => Contains(TText, ClassName)
        /\ stdout = <<>>

C1_Witness ==
    /\ pc = "exited"
    /\ t = Some(NotATime)
    /\ exit_code = Some(1)
    /\ stderr = ParserErrorMessage(NotATime)
    /\ stdout = <<>>

\* the caller's `parse_t(t) or now`: no time given means the current time
NoneMeansNow == Raised("None") => target = now

\* C4: a report built from (target, now) has, if target = now, no "Relative to
\* Now" row and only the columns Timezone and Now; if target /= now, that row
\* and the Target column, the row's text ending in "ago" iff target < now and in
\* "from now" otherwise.
C4_ReportShape ==
    \A i \in Reports :
        LET r   == stdout[i]
            rel == {j \in 1..Len(r.metadata) : r.metadata[j].label = "Relative to Now"}
        IN  IF target = now
            THEN /\ rel = {}
                 /\ r.columns = <<"Timezone", "Now">>
                 /\ \A k \in 1..Len(r.rows) : Len(r.rows[k].cells) = 1
            ELSE /\ Cardinality(rel) = 1
                 /\ r.columns = <<"Timezone", "Target", "Now">>
                 /\ \A k \in 1..Len(r.rows) : Len(r.rows[k].cells) = 2
                 /\ \A j \in rel :
                        /\ r.metadata[j].text = "ago" <=> target[1] < now[1]
                        /\ r.metadata[j].text = "from now" <=> target[1] > now[1]

C4_Witness ==
    /\ Reports /= {}
    /\ target /= None /\ now /= None
    /\ target[1] < now[1]
    /\ \E i \in Reports : stdout[i].metadata[1].text = "ago"

\* C5: each requested name is in exactly one of the valid and the invalid list,
\* and is valid iff it is a known name; a non-empty invalid list does not stop
\* the run: every invalid name is reported, and the report is still made, from
\* the valid timezones and the enabled defaults only.
C5_NamesSplitAndReportStillMade ==
    good_timezones /= None =>
        LET good == good_timezones[1]
            bad  == bad_timezones[1]
        IN  /\ \A i \in 1..Len(timezones) :
                   /\ InSeq(good, timezones[i]) /= InSeq(bad, timezones[i])
                   /\ InSeq(good, timezones[i]) <=> timezones[i] \in available_timezones
            /\ Len(good) + Len(bad) = Len(timezones)
            /\ bad /= <<>> =>
                   /\ Helps = {1}
                   /\ Len(stdout[1].entries) = Len(bad)
                   /\ \A k \in 1..Len(bad) : stdout[1].entries[k].name = bad[k]
            /\ pc \in {"report", "exited"}
            /\ pc = "exited" =>
                   /\ exit_code = Some(0)
                   /\ Reports = {Len(stdout)}
                   /\ RowNames(stdout[Len(stdout)]) =
                          {good[k] : k \in 1..Len(good)}
                          \cup (IF add_utc THEN {"UTC"} ELSE {})
                          \cup (IF add_local THEN {local_name} ELSE {})

C5_Witness ==
    /\ pc = "exited"
    /\ timezones = <<"Mars/Base", "Asia/Tokyo">>
    /\ bad_timezones = Some(<<"Mars/Base">>)
    /\ Reports = {2}
    /\ "Asia/Tokyo" \in RowNames(stdout[2])

\* C6: no identifier appears in two rows of the report, whatever was requested
\* (a name given twice, UTC given while add_utc is true, the local timezone's
\* name given while add_local is true); UTC is there whenever add_utc is true
\* and the local timezone whenever add_local is true.
C6_RowsDistinctByIdentifier ==
    \A i \in Reports :
        LET r == stdout[i]
        IN  /\ \A a, b \in 1..Len(r.rows) : a /= b => r.rows[a].name /= r.rows[b].name
            /\ add_utc => "UTC" \in RowNames(r)
            /\ add_local => local_name \in RowNames(r)

\* C8: a text the natural-language parser accepts but for which it yields no
\* absolute instant is reported as the parse failure of unrecognized text: the
\* error carries the text, it is caught at the top level, the exit code is 1, and
\* the error stream's text contains the input and no internal error type.
C8_NonInstantIsAParseFailure ==
    (~opt_clock /\ Raised("Exception")) =>
        /\ Contains(parsed[1].msg, TText)
        /\ pc = "exited"
        /\ exit_code = Some(1)
        /\ Contains(stderr, TText)
        /\ ~Contains(stderr, <<"Exception">>)
        /\ ~Contains(stderr, ClassName)

====
